---- MODULE Spec2Model ----
(***************************************************************************)
(* Model of the recipe REST API: the entity store (users, tags,            *)
(* ingredients, recipes with their many-to-many associations), the         *)
(* access-scoped list queries of recipe/views.py and the request handlers  *)
(* of the tag, ingredient and recipe view sets.                            *)
(*                                                                         *)
(* Conventions.  A string that is only compared is a TLA+ string; a        *)
(* string that is parsed (a query parameter) is a sequence of one-         *)
(* character strings.  A name or title is a natural number, its rank in    *)
(* the database collation, 0 being the empty string.  Anonymous is the     *)
(* request user of a request that carries no valid token.                  *)
(***************************************************************************)
EXTENDS Integers, Sequences, FiniteSets, TLC

\* ------------------------------------------------------------- bounds
\* Stored users and recipe rows, under every specification.
MaxUsers == 2
MaxRecipes == 2
\* Tag and ingredient rows under Spec and SpecDetail.
MaxScopedTags == 1
MaxIngredients == 1
\* Tag rows under SpecFilter and SpecAttributes.
MaxTags == 2
\* Names under SpecAttributes, titles under SpecDetail.
MaxName == 2
MaxTitle == 2
\* Recipe rows under SpecUpdate.
MaxUpdatedRecipes == 1
\* The connection attempts a database refuses before it accepts one.
MaxFailures == 30
\* User creation requests handled at the same time.
MaxRequests == 2

\* ---------------------------------------------------------- constants
HTTP_200_OK == 200
HTTP_201_CREATED == 201
HTTP_204_NO_CONTENT == 204
HTTP_400_BAD_REQUEST == 400
HTTP_401_UNAUTHORIZED == 401
HTTP_404_NOT_FOUND == 404
HTTP_500_INTERNAL_SERVER_ERROR == 500

Anonymous == 0
UserIds == 1 .. MaxUsers
Callers == UserIds \cup {Anonymous}
\* A query parameter that is absent (query_params.get returns None, or the
\* default False): told apart from every string, the empty one included.
None == <<"None">>

VARIABLES users, tags, ingredients, recipes, nextRecipeId, response,
          accounts, authtoken, command, inflight

vars == <<users, tags, ingredients, recipes, nextRecipeId, response,
          accounts, authtoken, command, inflight>>
\* The user table: the ids (users), the row of each id (accounts) and the
\* ids that hold an authentication token (authtoken).
user_db == <<users, accounts, authtoken>>
db == <<user_db, tags, ingredients, recipes, nextRecipeId>>
\* What a request handled in one step leaves alone: the run of the
\* wait_for_db command and the user creations other workers are handling.
process == <<command, inflight>>

\* ------------------------------------------------------------ helpers
Range(s) == {s[i] : i \in 1 .. Len(s)}

RECURSIVE SumOver(_, _)
SumOver(f, S) ==
    IF S = {} THEN 0
    ELSE LET x == CHOOSE y \in S : TRUE IN f[x] + SumOver(f, S \ {x})

\* The attribute table of a kind: ids are the positions, 1 .. Len.
Attributes(kind) == IF kind = "tag" THEN tags ELSE ingredients
AttributeIds(kind) == 1 .. Len(Attributes(kind))
\* The ids of the kind that a recipe row references (its ManyToManyField).
RecipeAttributeIds(kind, r) == IF kind = "tag" THEN r.tags ELSE r.ingredients
RecipeIds == {r.id : r \in recipes}
Recipe(pk) == CHOOSE r \in recipes : r.id = pk

\* ------------------------------------------- authentication, permission
\* Mutant: the permission class admits every request.
IsAuthenticated_allow_any(request_user) == TRUE

\* permission_classes = (IsAuthenticated,): the request user is a stored user.
IsAuthenticated(request_user) == request_user \in users

\* -------------------------------------------------- query parameters
Digits == <<"0", "1", "2", "3", "4", "5", "6", "7", "8", "9">>
IsDigit(c) == \E d \in 1 .. 10 : Digits[d] = c
DigitValue(c) == (CHOOSE d \in 1 .. 10 : Digits[d] = c) - 1

\* str.split(','): the tokens between the commas; ''.split(',') is [''].
RECURSIVE split(_)
split(str) ==
    IF \A i \in 1 .. Len(str) : str[i] # ","
    THEN <<str>>
    ELSE LET k == CHOOSE i \in 1 .. Len(str) :
                      /\ str[i] = ","
                      /\ \A j \in 1 .. (i - 1) : str[j] # ","
         IN <<SubSeq(str, 1, k - 1)>> \o split(SubSeq(str, k + 1, Len(str)))

\* Whether int(token) returns: the token is a non-empty run of decimal
\* digits.  (Signs, blanks and underscores are outside the alphabet used.)
int_parses(token) ==
    token # <<>> /\ \A i \in 1 .. Len(token) : IsDigit(token[i])

\* int(token) for a token that parses.
RECURSIVE int(_)
int(token) ==
    IF Len(token) = 1 THEN DigitValue(token[1])
    ELSE 10 * int(SubSeq(token, 1, Len(token) - 1))
         + DigitValue(token[Len(token)])

\* [int(str_ID) for str_ID in str_IDs.split(',')]: a token that does not
\* parse raises ValueError, and the exception leaves the function.
_params_to_ints(str_IDs) ==
    LET tokens == split(str_IDs)
    IN IF \E i \in 1 .. Len(tokens) : ~int_parses(tokens[i])
       THEN [raised |-> TRUE, value |-> <<>>]
       ELSE [raised |-> FALSE,
             value |-> [i \in 1 .. Len(tokens) |-> int(tokens[i])]]

\* Python truth of a query parameter: absent (None, or the default False)
\* and '' are false, every other string is true.
Truthy(param) == param # None /\ param # <<>>

\* -------------------------------------------------------- list queries
\* Mutant: an outer join, which keeps the attributes no recipe references.
filter_recipe_isnull_False_outer_join(kind) ==
    [a \in AttributeIds(kind) |->
        LET n == Cardinality({r \in recipes :
                                a \in RecipeAttributeIds(kind, r)})
        IN IF n = 0 THEN 1 ELSE n]

\* queryset.filter(recipe__isnull=False): the inner join of the attribute
\* table with the recipe association table, one row per (attribute, recipe)
\* pair.  The result maps each attribute id to its number of rows.
filter_recipe_isnull_False(kind) ==
    [a \in AttributeIds(kind) |->
        Cardinality({r \in recipes : a \in RecipeAttributeIds(kind, r)})]

\* .filter(user=...) on the counted rows of a kind.
filter_user(kind, rows, request_user) ==
    [a \in DOMAIN rows |->
        IF Attributes(kind)[a].user = request_user THEN rows[a] ELSE 0]

\* Mutant: the query is not made distinct.
distinct_missing(rows) == rows

\* .distinct(): SELECT DISTINCT over the attribute's own columns.
distinct(rows) == [a \in DOMAIN rows |-> IF rows[a] > 0 THEN 1 ELSE 0]

\* Mutant: order_by('name'), ascending.
order_by_name_asc(kind, rows) ==
    LET ids == {a \in DOMAIN rows : rows[a] > 0}
        n == SumOver(rows, DOMAIN rows)
    IN {s \in [1 .. n -> ids] :
          /\ \A a \in ids : Cardinality({i \in 1 .. n : s[i] = a}) = rows[a]
          /\ \A i \in 1 .. (n - 1) :
                Attributes(kind)[s[i]].name <= Attributes(kind)[s[i + 1]].name}

\* .order_by('-name'): every arrangement of the rows whose names do not
\* increase; the order of rows with equal names is the database's choice.
order_by_name_desc(kind, rows) ==
    LET ids == {a \in DOMAIN rows : rows[a] > 0}
        n == SumOver(rows, DOMAIN rows)
    IN {s \in [1 .. n -> ids] :
          /\ \A a \in ids : Cardinality({i \in 1 .. n : s[i] = a}) = rows[a]
          /\ \A i \in 1 .. (n - 1) :
                Attributes(kind)[s[i]].name >= Attributes(kind)[s[i + 1]].name}

\* RecipeAttributesViewSet.get_queryset: the admissible result sequences
\* (of attribute ids) for the request user and the assigned_only parameter.
RecipeAttributesViewSet_get_queryset(kind, request_user, assigned_only) ==
    LET all == [a \in AttributeIds(kind) |-> 1]
        queryset == IF Truthy(assigned_only)
                    THEN filter_recipe_isnull_False(kind)
                    ELSE all
    IN order_by_name_desc(kind,
           distinct(filter_user(kind, queryset, request_user)))

\* Mutant: a recipe matches only when it carries every listed id.
filter_id_in_all(kind, rows, ids) ==
    [r \in DOMAIN rows |->
        IF Range(ids) \subseteq RecipeAttributeIds(kind, Recipe(r))
        THEN rows[r] ELSE 0]

\* queryset.filter(tags__id__in=ids) / filter(ingredients__id__in=ids): the
\* inner join with the association table, each recipe row repeated once per
\* associated attribute whose id is listed.
filter_id_in(kind, rows, ids) ==
    [r \in DOMAIN rows |->
        rows[r]
        * Cardinality(RecipeAttributeIds(kind, Recipe(r)) \cap Range(ids))]

\* Mutant: the recipe rows are not restricted to the request user.
filter_recipe_user_unscoped(rows, request_user) == rows

\* .filter(user=...) on counted recipe rows.
filter_recipe_user(rows, request_user) ==
    [r \in DOMAIN rows |->
        IF Recipe(r).user = request_user THEN rows[r] ELSE 0]

\* Mutant: order_by('id'), ascending.
RECURSIVE order_by_id_asc(_)
order_by_id_asc(rows) ==
    LET ids == {r \in DOMAIN rows : rows[r] > 0}
    IN IF ids = {} THEN <<>>
       ELSE LET m == CHOOSE r \in ids : \A q \in ids : q >= r
            IN [i \in 1 .. rows[m] |-> m]
               \o order_by_id_asc([r \in ids \ {m} |-> rows[r]])

\* .order_by('-id'): ids are unique, so the order is determined; a repeated
\* row stands next to its copies.
RECURSIVE order_by_id_desc(_)
order_by_id_desc(rows) ==
    LET ids == {r \in DOMAIN rows : rows[r] > 0}
    IN IF ids = {} THEN <<>>
       ELSE LET m == CHOOSE r \in ids : \A q \in ids : q <= r
            IN [i \in 1 .. rows[m] |-> m]
               \o order_by_id_desc([r \in ids \ {m} |-> rows[r]])

\* Mutant: the ingredients filter is applied to the unfiltered queryset, so
\* it replaces the tags filter instead of narrowing it.
RecipeViewSet_get_queryset_unchained(request_user, tags_param, ingredients_param) ==
    LET all == [r \in RecipeIds |-> 1]
        tag_IDs == IF Truthy(tags_param)
                   THEN _params_to_ints(tags_param)
                   ELSE [raised |-> FALSE, value |-> <<>>]
        ingredient_IDs == IF Truthy(ingredients_param)
                          THEN _params_to_ints(ingredients_param)
                          ELSE [raised |-> FALSE, value |-> <<>>]
    IN IF tag_IDs.raised \/ ingredient_IDs.raised
       THEN [raised |-> TRUE, value |-> <<>>]
       ELSE LET q1 == IF Truthy(tags_param)
                      THEN filter_id_in("tag", all, tag_IDs.value) ELSE all
                q2 == IF Truthy(ingredients_param)
                      THEN filter_id_in("ingredient", all,
                                        ingredient_IDs.value)
                      ELSE q1
            IN [raised |-> FALSE,
                value |-> order_by_id_desc(filter_recipe_user(q2, request_user))]

\* RecipeViewSet.get_queryset: the result sequence (of recipe ids), or the
\* ValueError of a parameter that does not parse.
RecipeViewSet_get_queryset(request_user, tags_param, ingredients_param) ==
    LET all == [r \in RecipeIds |-> 1]
        tag_IDs == IF Truthy(tags_param)
                   THEN _params_to_ints(tags_param)
                   ELSE [raised |-> FALSE, value |-> <<>>]
        ingredient_IDs == IF Truthy(ingredients_param)
                          THEN _params_to_ints(ingredients_param)
                          ELSE [raised |-> FALSE, value |-> <<>>]
    IN IF tag_IDs.raised \/ ingredient_IDs.raised
       THEN [raised |-> TRUE, value |-> <<>>]
       ELSE LET q1 == IF Truthy(tags_param)
                      THEN filter_id_in("tag", all, tag_IDs.value) ELSE all
                q2 == IF Truthy(ingredients_param)
                      THEN filter_id_in("ingredient", q1, ingredient_IDs.value)
                      ELSE q1
            IN [raised |-> FALSE,
                value |-> order_by_id_desc(filter_recipe_user(q2, request_user))]

\* ------------------------------------------------------------ responses
\* What a state keeps of the last request and its response: the handler,
\* the request user, the identifier the URL names or the response returns
\* (0: none), the owner the request body names (Anonymous: none), the
\* fields the body of an accepted update supplied, the email the body of an
\* accepted user creation gave, the status and the response body.
NoData == [fields |-> {}, email |-> <<>>, name |-> 0, token |-> 0,
           errors |-> {}]
Response(op, request_user, pk, status) ==
    [op |-> op, user |-> request_user, pk |-> pk, body_user |-> Anonymous,
     supplied |-> {}, body_email |-> <<>>, status |-> status,
     data |-> NoData]

\* APIView.initial -> check_permissions: a request that fails
\* permission_classes is answered 401 before any handler runs.
permission_denied(request_user, op, pk) ==
    /\ ~IsAuthenticated(request_user)
    /\ response' = Response(op, request_user, pk, HTTP_401_UNAUTHORIZED)
    /\ UNCHANGED <<db, process>>

\* ------------------------------------------------------------ users
\* str.lower() over the alphabet of the emails used.
RECURSIVE lower(_)
lower(str) ==
    IF str = <<>> THEN <<>>
    ELSE LET c == str[1]
             l == IF c = "A" THEN "a" ELSE IF c = "B" THEN "b"
                  ELSE IF c = "C" THEN "c" ELSE c
         IN <<l>> \o lower(SubSeq(str, 2, Len(str)))

\* Mutant: the email is stored as given.
normalize_email_identity(email) == email

\* BaseUserManager.normalize_email: email.rsplit('@', 1), the domain part
\* lower-cased; an email without '@' is returned as it is.
normalize_email(email) ==
    IF \A i \in 1 .. Len(email) : email[i] # "@"
    THEN email
    ELSE LET k == CHOOSE i \in 1 .. Len(email) :
                      /\ email[i] = "@"
                      /\ \A j \in (i + 1) .. Len(email) : email[j] # "@"
         IN SubSeq(email, 1, k - 1) \o <<"@">>
            \o lower(SubSeq(email, k + 1, Len(email)))

\* Mutant: the raw password is stored.
set_password_plain(raw_password) ==
    [algorithm |-> "plain", of |-> raw_password]

\* AbstractBaseUser.set_password: the stored value is make_password(raw), a
\* salted hash that names its algorithm, never the raw password.
set_password(raw_password) ==
    [algorithm |-> "pbkdf2_sha256", of |-> raw_password]

\* Mutant: every password checks.
check_password_any(raw_password, encoded) == TRUE

\* AbstractBaseUser.check_password: the raw password hashes to the stored
\* value.
check_password(raw_password, encoded) ==
    encoded.algorithm = "pbkdf2_sha256" /\ encoded.of = raw_password

\* The row UserManager.create_user saves: the normalized email, the hashed
\* password and the extra fields.
new_user(email, password, name) ==
    [email |-> normalize_email(email), name |-> name,
     password |-> set_password(password)]

\* The exception UserManager.create_user ends with ("": none): ValueError
\* for no email, IntegrityError from user.save() when the row's email is
\* stored already (unique=True).
create_user_raises(email, password, name) ==
    IF email = <<>> THEN "ValueError"
    ELSE IF \E u \in users :
               accounts[u].email = new_user(email, password, name).email
    THEN "IntegrityError"
    ELSE ""

\* UserManager.create_user, called directly: a new user row.
create_user(email, password, name) ==
    /\ create_user_raises(email, password, name) = ""
    /\ users' = users \cup {Cardinality(users) + 1}
    /\ accounts' = Append(accounts, new_user(email, password, name))
    /\ response' = Response("create_user", Anonymous, Cardinality(users) + 1,
                            HTTP_201_CREATED)
    /\ UNCHANGED <<process, authtoken, tags, ingredients, recipes,
                 nextRecipeId>>

\* The user the set-ups of the recipe tests create: the next sample email,
\* a password and a name.
SamplePassword == <<"p", "a", "s", "s", "1">>
sample_user ==
    create_user(<<"u", Digits[Cardinality(users) + 2], "@", "b">>,
                SamplePassword, 1)

\* ------------------------------------------- tag and ingredient handlers
\* The responses of the list handler of a kind: 200 with one of the
\* admissible result sequences.
RecipeAttributesViewSet_list_responses(kind, request_user, assigned_only) ==
    IF ~IsAuthenticated(request_user)
    THEN {[status |-> HTTP_401_UNAUTHORIZED, data |-> <<>>]}
    ELSE {[status |-> HTTP_200_OK, data |-> s] :
            s \in RecipeAttributesViewSet_get_queryset(kind, request_user,
                                                       assigned_only)}

RecipeAttributesViewSet_list(kind, request_user, assigned_only) ==
    /\ IsAuthenticated(request_user)
    /\ \E r \in RecipeAttributesViewSet_list_responses(kind, request_user,
                                                       assigned_only) :
          response' = Response(kind \o "_list", request_user, 0, r.status)
    /\ UNCHANGED <<db, process>>

\* Mutant: the owner the body names is kept when it names one.
perform_create_owner_from_body(validated_data, request_user) ==
    IF validated_data.user # Anonymous THEN validated_data
    ELSE [validated_data EXCEPT !.user = request_user]

\* Mutant: save keeps the tags and ingredients of the request user only.
perform_create_own_attributes(validated_data, request_user) ==
    IF "tags" \notin DOMAIN validated_data
    THEN [validated_data EXCEPT !.user = request_user]
    ELSE [validated_data EXCEPT
            !.user = request_user,
            !.tags = {a \in @ : tags[a].user = request_user},
            !.ingredients = {a \in @ : ingredients[a].user = request_user}]

\* serializer.save(user=self.request.user): the keyword argument replaces
\* whatever owner the validated data carries.
perform_create(validated_data, request_user) ==
    [validated_data EXCEPT !.user = request_user]

\* Mutant: the name fields allow blank.
name_is_valid_blank_allowed(name) == TRUE

\* CharField(max_length=255) without blank=True: '' is not valid.
name_is_valid(name) == name # 0

RecipeAttributesViewSet_create(kind, request_user, name, body_user) ==
    /\ IsAuthenticated(request_user)
    /\ IF ~name_is_valid(name)
       THEN /\ response' = Response(kind \o "_create", request_user, 0,
                                    HTTP_400_BAD_REQUEST)
            /\ UNCHANGED <<db, process>>
       ELSE LET row == perform_create([name |-> name, user |-> body_user],
                                      request_user)
            IN /\ IF kind = "tag"
                  THEN tags' = Append(tags, row) /\ UNCHANGED ingredients
                  ELSE ingredients' = Append(ingredients, row)
                       /\ UNCHANGED tags
               /\ response' = [Response(kind \o "_create", request_user,
                                        Len(Attributes(kind)) + 1,
                                        HTTP_201_CREATED)
                                  EXCEPT !.body_user = body_user]
               /\ UNCHANGED <<process, user_db, recipes, nextRecipeId>>

\* ------------------------------------------------------- user handlers
\* UserSerializer.Meta: the fields, and the extra_kwargs of the password.
UserSerializer_fields == {"email", "password", "name"}
UserSerializer_write_only == {"password"}
min_length == 5

\* EmailField: a local part, one '@' and a domain.
email_is_valid(email) ==
    \E k \in 2 .. (Len(email) - 1) :
        /\ email[k] = "@"
        /\ \A j \in 1 .. Len(email) : j # k => email[j] # "@"

\* Mutant: the email field carries no UniqueValidator.
validate_email_not_unique(email, instance) ==
    IF email = <<>> THEN {<<"email", "blank">>}
    ELSE IF ~email_is_valid(email) THEN {<<"email", "invalid">>}
    ELSE {}

\* The errors of the email field: blank, no email address, or (the
\* UniqueValidator of unique=True) the email of a stored user other than
\* the instance being updated (0: none, a create).
validate_email(email, instance) ==
    IF email = <<>> THEN {<<"email", "blank">>}
    ELSE IF ~email_is_valid(email) THEN {<<"email", "invalid">>}
    ELSE IF \E u \in users \ {instance} : accounts[u].email = email
    THEN {<<"email", "unique">>}
    ELSE {}

\* Mutant: the password field has no min_length.
validate_password_any_length(password) ==
    IF password = <<>> THEN {<<"password", "blank">>} ELSE {}

\* The errors of the password field: CharField refuses '' as blank before
\* any validator runs, the MinLengthValidator of min_length refuses the
\* rest of the short ones.
validate_password(password) ==
    IF password = <<>> THEN {<<"password", "blank">>}
    ELSE IF Len(password) < min_length THEN {<<"password", "min_length">>}
    ELSE {}

\* UserSerializer.is_valid: the errors of a body.  A field the body does
\* not supply is required unless the update is partial.
UserSerializer_errors(payload, partial, instance) ==
    {<<f, "required">> : f \in {g \in UserSerializer_fields :
                                  ~partial /\ g \notin payload.supplied}}
    \cup (IF "email" \in payload.supplied
          THEN validate_email(payload.email, instance) ELSE {})
    \cup (IF "password" \in payload.supplied
          THEN validate_password(payload.password) ELSE {})
    \cup (IF "name" \in payload.supplied /\ ~name_is_valid(payload.name)
          THEN {<<"name", "blank">>} ELSE {})

\* serializer.data of a user row: the fields that are not write-only.
UserSerializer_data(user) ==
    [NoData EXCEPT !.fields = UserSerializer_fields
                                 \ UserSerializer_write_only,
                   !.email = user.email, !.name = user.name]
ErrorData(errors) == [NoData EXCEPT !.errors = errors]

\* CreateUserView (CreateAPIView.post): no authentication is asked for.
\* UserSerializer.create calls create_user(**validated_data); an exception
\* of create_user is caught by nothing.
CreateUserView_post(payload) ==
    LET errors == UserSerializer_errors(payload, FALSE, 0)
        raises == create_user_raises(payload.email, payload.password,
                                     payload.name)
        user == new_user(payload.email, payload.password, payload.name)
    IN IF errors # {}
       THEN /\ response' = [Response("user_create", Anonymous, 0,
                                     HTTP_400_BAD_REQUEST)
                               EXCEPT !.data = ErrorData(errors)]
            /\ UNCHANGED <<db, process>>
       ELSE IF raises # ""
       THEN /\ response' = Response("user_create", Anonymous, 0,
                                    HTTP_500_INTERNAL_SERVER_ERROR)
            /\ UNCHANGED <<db, process>>
       ELSE /\ users' = users \cup {Cardinality(users) + 1}
            /\ accounts' = Append(accounts, user)
            /\ response' = [Response("user_create", Anonymous,
                                     Cardinality(users) + 1, HTTP_201_CREATED)
                               EXCEPT !.data = UserSerializer_data(user),
                                      !.body_email = payload.email]
            /\ UNCHANGED <<process, authtoken, tags, ingredients, recipes,
                           nextRecipeId>>

\* A body without fields.
NoBody == [supplied |-> {}, email |-> <<>>, password |-> <<>>, name |-> 0,
           id |-> 0]

\* A user creation handled next to others takes two steps, and the steps
\* of other requests may come between them.  inflight[request] holds the
\* validated body between the two steps.
Requests == 1 .. MaxRequests
NoRequest == [pc |-> "idle", payload |-> NoBody]

\* First step, serializer.is_valid(): the validators read the user table as
\* it is now; a body with errors is answered 400 at once.
CreateUserView_post_is_valid(request, payload) ==
    LET errors == UserSerializer_errors(payload, FALSE, 0)
    IN /\ inflight[request] = NoRequest
       /\ IF errors # {}
          THEN /\ response' = [Response("user_create", Anonymous, 0,
                                        HTTP_400_BAD_REQUEST)
                                  EXCEPT !.data = ErrorData(errors)]
               /\ UNCHANGED inflight
          ELSE /\ inflight' = [inflight EXCEPT ![request] =
                                  [pc |-> "save", payload |-> payload]]
               /\ UNCHANGED response
       /\ UNCHANGED <<db, command>>

\* Second step, serializer.save() -> create_user: the row is inserted, or
\* the unique email column refuses it with IntegrityError, which nothing
\* catches.
CreateUserView_post_save(request) ==
    LET payload == inflight[request].payload
        raises == create_user_raises(payload.email, payload.password,
                                     payload.name)
        user == new_user(payload.email, payload.password, payload.name)
    IN /\ inflight[request].pc = "save"
       /\ inflight' = [inflight EXCEPT ![request] = NoRequest]
       /\ IF raises # ""
          THEN /\ response' = [Response("user_create", Anonymous, 0,
                                        HTTP_500_INTERNAL_SERVER_ERROR)
                                  EXCEPT !.body_email = payload.email]
               /\ UNCHANGED db
          ELSE /\ users' = users \cup {Cardinality(users) + 1}
               /\ accounts' = Append(accounts, user)
               /\ response' = [Response("user_create", Anonymous,
                                        Cardinality(users) + 1,
                                        HTTP_201_CREATED)
                                  EXCEPT !.data = UserSerializer_data(user),
                                         !.body_email = payload.email]
               /\ UNCHANGED <<authtoken, tags, ingredients, recipes,
                              nextRecipeId>>
       /\ UNCHANGED command

\* authenticate(username=email, password=password) with the ModelBackend:
\* the user whose email is the username and whose password checks, or
\* none (0).
authenticate(email, password) ==
    LET found == {u \in users :
                    /\ accounts[u].email = email
                    /\ check_password(password, accounts[u].password)}
    IN IF found = {} THEN Anonymous ELSE CHOOSE u \in found : TRUE

\* Mutant: an email that no user has is reported as such.
AuthTokenSerializer_validate_tells_email(email, password) ==
    LET user == authenticate(email, password)
    IN [user |-> user,
        errors |-> IF user # Anonymous THEN {}
                   ELSE IF \A u \in users : accounts[u].email # email
                   THEN {<<"email", "not_found">>}
                   ELSE {<<"non_field_errors", "authentication">>}]

\* AuthTokenSerializer.validate: the authenticated user, or one
\* ValidationError with the code 'authentication'.
AuthTokenSerializer_validate(email, password) ==
    LET user == authenticate(email, password)
    IN [user |-> user,
        errors |-> IF user # Anonymous THEN {}
                   ELSE {<<"non_field_errors", "authentication">>}]

\* AuthTokenSerializer.is_valid: the two CharFields refuse '' as blank;
\* validate runs when both fields are valid.
AuthTokenSerializer_is_valid(email, password) ==
    LET field_errors ==
            (IF email = <<>> THEN {<<"email", "blank">>} ELSE {})
            \cup (IF password = <<>> THEN {<<"password", "blank">>} ELSE {})
    IN IF field_errors # {}
       THEN [user |-> Anonymous, errors |-> field_errors]
       ELSE AuthTokenSerializer_validate(email, password)

\* The key of the token of a user: opaque, one per user.
Token_key(user) == user

\* The response of CreateTokenView (ObtainAuthToken.post): the token of
\* the authenticated user, or 400 with the errors.
CreateTokenView_response(email, password) ==
    LET valid == AuthTokenSerializer_is_valid(email, password)
    IN IF valid.errors # {}
       THEN [status |-> HTTP_400_BAD_REQUEST, data |-> ErrorData(valid.errors)]
       ELSE [status |-> HTTP_200_OK,
             data |-> [NoData EXCEPT !.fields = {"token"},
                                     !.token = Token_key(valid.user)]]

\* ObtainAuthToken.post: Token.objects.get_or_create(user=user).  The
\* response kept names the stored user the email belongs to (0: none).
CreateTokenView_post(email, password) ==
    LET valid == AuthTokenSerializer_is_valid(email, password)
        r == CreateTokenView_response(email, password)
        named == {u \in users : accounts[u].email = email}
        pk == IF named = {} THEN 0 ELSE CHOOSE u \in named : TRUE
    IN /\ response' = [Response("token_create", Anonymous, pk, r.status)
                          EXCEPT !.data = r.data]
       /\ authtoken' = IF valid.errors = {} THEN authtoken \cup {valid.user}
                       ELSE authtoken
       /\ UNCHANGED <<process, users, accounts, tags, ingredients, recipes,
                      nextRecipeId>>

\* Mutant: the profile is the user the body names by id.
ManageUserView_get_object_from_body(request_user, payload) ==
    IF payload.id \in users THEN payload.id ELSE request_user

\* ManageUserView.get_object: the authenticated user, whatever the request
\* carries.
ManageUserView_get_object(request_user, payload) == request_user

\* RetrieveUpdateAPIView.get on the profile.
ManageUserView_retrieve(request_user) ==
    /\ IsAuthenticated(request_user)
    /\ response' =
          [Response("me_retrieve", request_user, 0, HTTP_200_OK)
              EXCEPT !.data = UserSerializer_data(
                        accounts[ManageUserView_get_object(request_user,
                                                           NoBody)])]
    /\ UNCHANGED <<db, process>>

\* UserSerializer.update: the password is popped, ModelSerializer.update
\* sets the other validated fields as given, and a password that is not
\* empty is set through set_password.
UserSerializer_update(instance, payload) ==
    [instance EXCEPT
        !.email = IF "email" \in payload.supplied THEN payload.email ELSE @,
        !.name = IF "name" \in payload.supplied THEN payload.name ELSE @,
        !.password = IF "password" \in payload.supplied
                        /\ payload.password # <<>>
                     THEN set_password(payload.password) ELSE @]

\* RetrieveUpdateAPIView.put and patch on the profile.
ManageUserView_update(request_user, payload, partial) ==
    LET instance == ManageUserView_get_object(request_user, payload)
        errors == UserSerializer_errors(payload, partial, instance)
        user == UserSerializer_update(accounts[instance], payload)
    IN /\ IsAuthenticated(request_user)
       /\ IF errors # {}
          THEN /\ response' = [Response("me_update", request_user, 0,
                                        HTTP_400_BAD_REQUEST)
                                  EXCEPT !.data = ErrorData(errors)]
               /\ UNCHANGED <<db, process>>
          ELSE /\ accounts' = [accounts EXCEPT ![instance] = user]
               /\ response' = [Response("me_update", request_user, 0,
                                        HTTP_200_OK)
                                  EXCEPT !.data = UserSerializer_data(user),
                                         !.supplied = payload.supplied]
               /\ UNCHANGED <<process, users, authtoken, tags, ingredients,
                              recipes,
                              nextRecipeId>>

\* ------------------------------------------------------ recipe handlers
FieldNames == {"title", "time_minutes", "price", "link", "tags", "ingredients"}
\* A recipe without an image (the ImageField is null): no stored path.
NoImage == <<>>

\* file_name.split('.')[-1]: what follows the last '.', and the whole name
\* when it holds no '.'.
file_extension(file_name) ==
    IF \A i \in 1 .. Len(file_name) : file_name[i] # "."
    THEN file_name
    ELSE LET k == CHOOSE i \in 1 .. Len(file_name) :
                      /\ file_name[i] = "."
                      /\ \A j \in (i + 1) .. Len(file_name) :
                            file_name[j] # "."
         IN SubSeq(file_name, k + 1, Len(file_name))

\* create_recipe_image_file_path: 'uploads/recipe/' joined with
\* f'{uuid.uuid4()}.{file_extension}'; uuid4 is the value uuid.uuid4()
\* returns in the call.
create_recipe_image_file_path(file_name, uuid4) ==
    <<"uploads/recipe/">> \o uuid4 \o <<".">> \o file_extension(file_name)

\* The response of the recipe list handler: the ValueError of a parameter
\* that does not parse is caught by no handler and ends as a server error.
RecipeViewSet_list_response(request_user, tags_param, ingredients_param) ==
    IF ~IsAuthenticated(request_user)
    THEN [status |-> HTTP_401_UNAUTHORIZED, data |-> <<>>]
    ELSE LET queryset == RecipeViewSet_get_queryset(request_user, tags_param,
                                                    ingredients_param)
         IN IF queryset.raised
            THEN [status |-> HTTP_500_INTERNAL_SERVER_ERROR, data |-> <<>>]
            ELSE [status |-> HTTP_200_OK, data |-> queryset.value]

RecipeViewSet_list(request_user, tags_param, ingredients_param) ==
    /\ IsAuthenticated(request_user)
    /\ response' = Response("recipe_list", request_user, 0,
           RecipeViewSet_list_response(request_user, tags_param,
                                       ingredients_param).status)
    /\ UNCHANGED <<db, process>>

\* RecipeSerializer validation: a supplied title is not '', a required field
\* is supplied unless the update is partial, and every listed tag or
\* ingredient id is the id of a stored row, of any owner.
RecipeSerializer_is_valid(payload, partial) ==
    /\ "title" \in payload.supplied => name_is_valid(payload.title)
    /\ ~partial => {"title", "time_minutes", "price"} \subseteq payload.supplied
    /\ "tags" \in payload.supplied => payload.tags \subseteq AttributeIds("tag")
    /\ "ingredients" \in payload.supplied =>
           payload.ingredients \subseteq AttributeIds("ingredient")

\* The validated data of a create or a full update: a many-to-many field the
\* body omits is the empty list, an omitted link is ''.
RecipeSerializer_validated_data(payload) ==
    [title |-> payload.title, time_minutes |-> payload.time_minutes,
     price |-> payload.price,
     link |-> IF "link" \in payload.supplied THEN payload.link ELSE 0,
     tags |-> IF "tags" \in payload.supplied THEN payload.tags ELSE {},
     ingredients |-> IF "ingredients" \in payload.supplied
                     THEN payload.ingredients ELSE {},
     user |-> payload.user]

RecipeViewSet_create(request_user, payload) ==
    /\ IsAuthenticated(request_user)
    /\ IF ~RecipeSerializer_is_valid(payload, FALSE)
       THEN /\ response' = Response("recipe_create", request_user, 0,
                                    HTTP_400_BAD_REQUEST)
            /\ UNCHANGED <<db, process>>
       ELSE LET data == perform_create(RecipeSerializer_validated_data(payload),
                                       request_user)
                row == [id |-> nextRecipeId, title |-> data.title,
                        time_minutes |-> data.time_minutes,
                        price |-> data.price, link |-> data.link,
                        image |-> NoImage, tags |-> data.tags,
                        ingredients |-> data.ingredients, user |-> data.user]
            IN /\ recipes' = recipes \cup {row}
               /\ nextRecipeId' = nextRecipeId + 1
               /\ response' = [Response("recipe_create", request_user,
                                        nextRecipeId, HTTP_201_CREATED)
                                  EXCEPT !.body_user = payload.user]
               /\ UNCHANGED <<process, user_db, tags, ingredients>>

\* GenericAPIView.get_object: get_object_or_404 over get_queryset(), which
\* reads the tags and ingredients query parameters of every request.  The
\* outcome: "found", "not_found" (Http404), or "error" (the ValueError of
\* get_queryset, or MultipleObjectsReturned when the joins repeat the row).
get_object(request_user, pk, query) ==
    LET queryset == RecipeViewSet_get_queryset(request_user, query[1],
                                               query[2])
        n == Cardinality({i \in 1 .. Len(queryset.value) :
                            queryset.value[i] = pk})
    IN IF queryset.raised THEN "error"
       ELSE IF n = 0 THEN "not_found"
       ELSE IF n = 1 THEN "found"
       ELSE "error"

\* The status of a detail request that did not get its object.
get_object_status(outcome) ==
    IF outcome = "not_found" THEN HTTP_404_NOT_FOUND
    ELSE HTTP_500_INTERNAL_SERVER_ERROR

RecipeViewSet_retrieve(request_user, pk, query) ==
    /\ IsAuthenticated(request_user)
    /\ LET outcome == get_object(request_user, pk, query)
       IN response' = Response("recipe_retrieve", request_user, pk,
              IF outcome = "found" THEN HTTP_200_OK
              ELSE get_object_status(outcome))
    /\ UNCHANGED <<db, process>>

\* ModelSerializer.update: each validated field is set on the instance; the
\* owner is no field of the serializer and stays.
RecipeSerializer_update(instance, payload, partial) ==
    LET data == RecipeSerializer_validated_data(payload)
        given(f) == ~partial \/ f \in payload.supplied
    IN [instance EXCEPT
          !.title = IF given("title") THEN data.title ELSE @,
          !.time_minutes = IF given("time_minutes") THEN data.time_minutes
                           ELSE @,
          !.price = IF given("price") THEN data.price ELSE @,
          !.link = IF given("link") THEN data.link ELSE @,
          !.tags = IF given("tags") THEN data.tags ELSE @,
          !.ingredients = IF given("ingredients") THEN data.ingredients
                          ELSE @]

\* UpdateModelMixin.update with the serializer it builds: get_object,
\* get_serializer(instance, data, partial=serializer_partial), is_valid,
\* save.  op_partial tells PATCH from PUT in the response kept.
UpdateModelMixin_update(request_user, pk, query, payload, op_partial, sz_partial) ==
    LET op == IF op_partial THEN "recipe_partial_update" ELSE "recipe_update"
        outcome == get_object(request_user, pk, query)
    IN /\ IsAuthenticated(request_user)
       /\ IF outcome # "found"
          THEN /\ response' = Response(op, request_user, pk,
                                       get_object_status(outcome))
               /\ UNCHANGED <<db, process>>
          ELSE IF ~RecipeSerializer_is_valid(payload, sz_partial)
          THEN /\ response' = Response(op, request_user, pk,
                                       HTTP_400_BAD_REQUEST)
               /\ UNCHANGED <<db, process>>
          ELSE /\ recipes' = (recipes \ {Recipe(pk)})
                      \cup {RecipeSerializer_update(Recipe(pk), payload,
                                                    sz_partial)}
               /\ response' = [Response(op, request_user, pk, HTTP_200_OK)
                                  EXCEPT !.supplied = payload.supplied]
               /\ UNCHANGED <<process, user_db, tags, ingredients,
                              nextRecipeId>>

\* Mutant: PATCH is served as PUT, the serializer is never partial.
RecipeViewSet_update_never_partial(request_user, pk, query, payload, partial) ==
    UpdateModelMixin_update(request_user, pk, query, payload, partial, FALSE)

\* Mutant: PUT is served as PATCH, the serializer is always partial.
RecipeViewSet_update_always_partial(request_user, pk, query, payload, partial) ==
    UpdateModelMixin_update(request_user, pk, query, payload, partial, TRUE)

\* UpdateModelMixin.update (PUT) and partial_update (PATCH), which is
\* update with partial=True.
RecipeViewSet_update(request_user, pk, query, payload, partial) ==
    UpdateModelMixin_update(request_user, pk, query, payload, partial,
                            partial)

\* DestroyModelMixin.destroy.
RecipeViewSet_destroy(request_user, pk, query) ==
    LET outcome == get_object(request_user, pk, query)
    IN /\ IsAuthenticated(request_user)
       /\ IF outcome # "found"
          THEN /\ response' = Response("recipe_destroy", request_user, pk,
                                       get_object_status(outcome))
               /\ UNCHANGED <<db, process>>
          ELSE /\ recipes' = recipes \ {Recipe(pk)}
               /\ response' = Response("recipe_destroy", request_user, pk,
                                       HTTP_204_NO_CONTENT)
               /\ UNCHANGED <<process, user_db, tags, ingredients,
                              nextRecipeId>>

\* RecipeViewSet.upload_image: the image of the recipe the URL names is
\* replaced by the uploaded file when the file is an image; the file is
\* stored under the path upload_to makes of its name.
RecipeViewSet_upload_image(request_user, pk, query, file) ==
    LET outcome == get_object(request_user, pk, query)
    IN /\ IsAuthenticated(request_user)
       /\ IF outcome # "found"
          THEN /\ response' = Response("recipe_upload_image", request_user,
                                       pk, get_object_status(outcome))
               /\ UNCHANGED <<db, process>>
          ELSE IF ~file.is_image
          THEN /\ response' = Response("recipe_upload_image", request_user,
                                       pk, HTTP_400_BAD_REQUEST)
               /\ UNCHANGED <<db, process>>
          ELSE /\ recipes' = (recipes \ {Recipe(pk)})
                      \cup {[Recipe(pk) EXCEPT !.image =
                                create_recipe_image_file_path(file.name,
                                                              file.uuid4)]}
               /\ response' = Response("recipe_upload_image", request_user,
                                       pk, HTTP_200_OK)
               /\ UNCHANGED <<process, user_db, tags, ingredients,
                              nextRecipeId>>

\* ----------------------------------------------------- wait_for_db
\* The run of the wait_for_db command: the place in handle (pc), db_conn,
\* the calls of connections['default'] made (call_count), the calls of
\* time.sleep made (sleep_count), the calls that raised OperationalError
\* (raised) and the lines written to stdout.
Waiting == "Waiting for the database..."
NotAvailable == "The database is not available, waiting for 1 second..."
Available == "The database is available!"

\* handle, up to the loop: the first line is written and db_conn is None.
handle_begin ==
    /\ command.pc = "handle"
    /\ command' = [command EXCEPT !.pc = "while",
                                  !.stdout = Append(@, Waiting)]
    /\ UNCHANGED <<db, response, inflight>>

\* while not db_conn: the loop is entered again, or left for the last
\* line, after which handle returns.
handle_while ==
    /\ command.pc = "while"
    /\ IF command.db_conn = None
       THEN command' = [command EXCEPT !.pc = "try"]
       ELSE command' = [command EXCEPT !.pc = "done",
                                       !.stdout = Append(@, Available)]
    /\ UNCHANGED <<db, response, inflight>>

\* Mutant: the except branch leaves the loop as if connected.
connections_default_raises_gives_up ==
    /\ command.pc = "try"
    /\ command.raised < MaxFailures
    /\ command' = [command EXCEPT !.pc = "while", !.db_conn = <<"default">>,
                                  !.call_count = @ + 1, !.raised = @ + 1]
    /\ UNCHANGED <<db, response, inflight>>

\* db_conn = connections['default'] raises OperationalError: db_conn stays
\* None and the except branch writes its line.
connections_default_raises ==
    /\ command.pc = "try"
    /\ command.raised < MaxFailures
    /\ command' = [command EXCEPT !.pc = "sleep",
                                  !.call_count = @ + 1, !.raised = @ + 1,
                                  !.stdout = Append(@, NotAvailable)]
    /\ UNCHANGED <<db, response, inflight>>

\* time.sleep(1) in the except branch, then the loop condition again.
time_sleep ==
    /\ command.pc = "sleep"
    /\ command' = [command EXCEPT !.pc = "while", !.sleep_count = @ + 1]
    /\ UNCHANGED <<db, response, inflight>>

\* db_conn = connections['default'] returns the connection.
connections_default_returns ==
    /\ command.pc = "try"
    /\ command' = [command EXCEPT !.pc = "while", !.db_conn = <<"default">>,
                                  !.call_count = @ + 1]
    /\ UNCHANGED <<db, response, inflight>>

\* ------------------------------------------------------------ initial
Init ==
    /\ users = {}
    /\ accounts = <<>>
    /\ authtoken = {}
    /\ tags = <<>>
    /\ ingredients = <<>>
    /\ recipes = {}
    /\ nextRecipeId = 1
    /\ response = Response("none", Anonymous, 0, 0)
    /\ command = [pc |-> "handle", db_conn |-> None, call_count |-> 0,
                  sleep_count |-> 0, raised |-> 0, stdout |-> <<>>]
    /\ inflight = [request \in Requests |-> NoRequest]

\* ------------------------------------------------------------- inputs
\* The query strings requests are drawn from: absent, '', '1', '2', '1,2',
\* 'a', '1,,2', '1,x'.
QueryParams ==
    {None, <<>>, <<"1">>, <<"2">>, <<"1", ",", "2">>, <<"a">>,
     <<"1", ",", ",", "2">>, <<"1", ",", "x">>}
NoQuery == <<None, None>>
\* The (tags, ingredients) query strings of the requests issued.
ListQueries ==
    {NoQuery, <<<<"1", ",", "2">>, None>>, <<None, <<"1">>>>,
     <<<<"1">>, <<"1">>>>, <<<<"a">>, None>>, <<None, <<"1", ",", "x">>>>}
DetailQueries == {NoQuery, <<<<"a">>, None>>}
\* The values of the assigned_only parameter: absent, '', 'true', '1', '0',
\* 'false'.
AssignedOnlyParams ==
    {None, <<>>, <<"t", "r", "u", "e">>, <<"1">>, <<"0">>,
     <<"f", "a", "l", "s", "e">>}
\* The owner a request body names: none, or a user other than the caller.
BodyUsers(request_user) == {Anonymous} \cup (UserIds \ {request_user})
\* The uploaded files: an image or a text, with the file name and the
\* value uuid.uuid4() returns while the file is stored.
File(is_image, name, uuid4) ==
    [is_image |-> is_image, name |-> name, uuid4 |-> uuid4]
Files ==
    {File(TRUE, <<"a", ".", "j">>, <<"1">>),
     File(FALSE, <<"a", ".", "j">>, <<"1">>)}

Payload(supplied, title, tag_ids, ingredient_ids, body_user) ==
    [supplied |-> supplied, title |-> title, time_minutes |-> 10,
     price |-> 5, link |-> 0, tags |-> tag_ids,
     ingredients |-> ingredient_ids, user |-> body_user]

\* Request bodies that supply every field: the valid titles with every set
\* of tag and ingredient ids up to the bounds, and one body with title ''.
FullPayloads(maxTitle, maxTag, maxIngredient, body_users) ==
    {Payload(FieldNames, t, T, I, b) :
        t \in 1 .. maxTitle, T \in SUBSET (1 .. maxTag),
        I \in SUBSET (1 .. maxIngredient), b \in body_users}
    \cup {Payload(FieldNames, 0, {}, {}, Anonymous)}

\* Request bodies that supply some fields only.
PartialPayloads(maxTitle, maxTag, maxIngredient) ==
    {Payload({"tags"}, 0, T, {}, Anonymous) : T \in SUBSET (1 .. maxTag)}
    \cup {Payload({"ingredients"}, 0, {}, I, Anonymous) :
            I \in SUBSET (1 .. maxIngredient)}
    \cup {Payload({"title"}, t, {}, {}, Anonymous) : t \in 0 .. maxTitle}
    \cup {Payload({"title", "time_minutes", "price"}, t, {}, {}, Anonymous) :
            t \in 1 .. maxTitle}

AttributeKinds == {"tag", "ingredient"}
ListOps == {"tag_list", "ingredient_list", "recipe_list"}
CreateOps == {"tag_create", "ingredient_create", "recipe_create"}
DetailOps == {"recipe_retrieve", "recipe_update", "recipe_partial_update",
              "recipe_destroy", "recipe_upload_image"}

\* --------------------------------------------------------------- next
MeOps == {"me_retrieve", "me_update"}

\* Spec: every list and every create, update and delete of the recipe
\* application by two users, with one name and one title.
Next ==
    \E request_user \in Callers :
        \/ Cardinality(users) < MaxUsers /\ sample_user
        \/ \E op \in ListOps \cup CreateOps \cup MeOps :
              permission_denied(request_user, op, 0)
        \/ \E op \in DetailOps, pk \in 1 .. MaxRecipes :
              permission_denied(request_user, op, pk)
        \/ \E kind \in {"tag", "ingredient"},
              assigned_only \in {None, <<"1">>} :
              RecipeAttributesViewSet_list(kind, request_user, assigned_only)
        \/ \E name \in 0 .. 1, body_user \in BodyUsers(request_user) :
              /\ Len(tags) < MaxScopedTags
              /\ RecipeAttributesViewSet_create("tag", request_user, name,
                                                body_user)
        \/ \E name \in 0 .. 1, body_user \in BodyUsers(request_user) :
              /\ Len(ingredients) < MaxIngredients
              /\ RecipeAttributesViewSet_create("ingredient", request_user,
                                                name, body_user)
        \/ \E query \in ListQueries :
              RecipeViewSet_list(request_user, query[1], query[2])
        \/ \E payload \in FullPayloads(1, MaxScopedTags, MaxIngredients,
                                       BodyUsers(request_user)) :
              /\ nextRecipeId <= MaxRecipes
              /\ RecipeViewSet_create(request_user, payload)
        \/ \E pk \in 1 .. MaxRecipes,
              payload \in FullPayloads(1, MaxScopedTags, MaxIngredients,
                                       BodyUsers(request_user)) :
              RecipeViewSet_update(request_user, pk, NoQuery, payload, FALSE)
        \/ \E pk \in 1 .. MaxRecipes,
              payload \in PartialPayloads(1, MaxScopedTags, MaxIngredients) :
              RecipeViewSet_update(request_user, pk, NoQuery, payload, TRUE)
        \/ \E pk \in 1 .. MaxRecipes :
              RecipeViewSet_destroy(request_user, pk, NoQuery)

Spec == Init /\ [][Next]_vars

\* SpecFilter: the recipe list over recipes that carry up to two tags and
\* an ingredient.
NextFilter ==
    \E request_user \in Callers :
        \/ Cardinality(users) < MaxUsers /\ sample_user
        \/ permission_denied(request_user, "recipe_list", 0)
        \/ /\ Len(tags) < MaxTags
           /\ RecipeAttributesViewSet_create("tag", request_user, 1, Anonymous)
        \/ /\ Len(ingredients) < MaxIngredients
           /\ RecipeAttributesViewSet_create("ingredient", request_user, 1,
                                             Anonymous)
        \/ \E payload \in FullPayloads(1, MaxTags, MaxIngredients,
                                       {Anonymous}) :
              /\ nextRecipeId <= MaxRecipes
              /\ RecipeViewSet_create(request_user, payload)
        \/ \E query \in ListQueries :
              RecipeViewSet_list(request_user, query[1], query[2])

SpecFilter == Init /\ [][NextFilter]_vars

\* SpecAttributes: the tag list and the ingredient list over rows of
\* several names and the recipes that carry them; the rows stored are all
\* tags or all ingredients.
OtherKind(kind) == IF kind = "tag" THEN "ingredient" ELSE "tag"
AttributePayloads ==
    {p \in FullPayloads(1, MaxTags, MaxTags, {Anonymous}) :
        p.tags = {} \/ p.ingredients = {}}

NextAttributes ==
    \E request_user \in Callers :
        \/ Cardinality(users) < MaxUsers /\ sample_user
        \/ \E op \in ListOps \cup CreateOps :
              permission_denied(request_user, op, 0)
        \/ \E kind \in AttributeKinds, assigned_only \in AssignedOnlyParams :
              RecipeAttributesViewSet_list(kind, request_user, assigned_only)
        \/ \E kind \in AttributeKinds, name \in 0 .. MaxName,
              body_user \in BodyUsers(request_user) :
              /\ Len(Attributes(kind)) < MaxTags
              /\ Len(Attributes(OtherKind(kind))) = 0
              /\ RecipeAttributesViewSet_create(kind, request_user, name,
                                                body_user)
        \/ \E payload \in AttributePayloads :
              /\ nextRecipeId <= MaxRecipes
              /\ RecipeViewSet_create(request_user, payload)

SpecAttributes == Init /\ [][NextAttributes]_vars

\* SpecDetail: the detail routes of a recipe, with query strings, several
\* titles and images.
NextDetail ==
    \E request_user \in Callers :
        \/ Cardinality(users) < MaxUsers /\ sample_user
        \/ \E op \in DetailOps, pk \in 1 .. MaxRecipes :
              permission_denied(request_user, op, pk)
        \/ /\ Len(tags) < MaxScopedTags
           /\ RecipeAttributesViewSet_create("tag", request_user, 1,
                                             Anonymous)
        \/ \E payload \in FullPayloads(MaxTitle, MaxScopedTags, 0,
                                       {Anonymous}) :
              /\ nextRecipeId <= MaxRecipes
              /\ RecipeViewSet_create(request_user, payload)
        \/ \E pk \in 1 .. MaxRecipes, query \in DetailQueries :
              RecipeViewSet_retrieve(request_user, pk, query)
        \/ \E pk \in 1 .. MaxRecipes, query \in DetailQueries :
              RecipeViewSet_update(request_user, pk, query,
                  Payload(FieldNames \ {"tags", "ingredients"}, MaxTitle,
                          {}, {}, Anonymous), FALSE)
        \/ \E pk \in 1 .. MaxRecipes,
              payload \in PartialPayloads(1, MaxScopedTags, 0) :
              RecipeViewSet_update(request_user, pk, NoQuery, payload, TRUE)
        \/ \E pk \in 1 .. MaxRecipes, query \in DetailQueries :
              RecipeViewSet_destroy(request_user, pk, query)
        \/ \E pk \in 1 .. MaxRecipes, query \in DetailQueries,
              file \in Files :
              RecipeViewSet_upload_image(request_user, pk, query, file)

SpecDetail == Init /\ [][NextDetail]_vars

\* SpecUpdate: the full and the partial update of recipes that carry a tag
\* and an ingredient, with bodies that supply some of the fields and give
\* every scalar field a new value.
UpdateBody(supplied, tag_ids, ingredient_ids) ==
    [supplied |-> supplied, title |-> 2, time_minutes |-> 20, price |-> 7,
     link |-> 1, tags |-> tag_ids, ingredients |-> ingredient_ids,
     user |-> Anonymous]
UpdateBodies(supplied_sets) ==
    {UpdateBody(S, T, I) :
        S \in supplied_sets, T \in SUBSET (1 .. MaxScopedTags),
        I \in SUBSET (1 .. MaxIngredients)}
PutPayloads ==
    {p \in UpdateBodies({FieldNames, FieldNames \ {"tags"},
                         FieldNames \ {"ingredients"},
                         {"title", "time_minutes", "price"}, {"title"}}) :
        /\ "tags" \notin p.supplied => p.tags = {}
        /\ "ingredients" \notin p.supplied => p.ingredients = {}}
PatchPayloads ==
    {p \in UpdateBodies({{"tags"}, {"ingredients"}, {"title"}, {"link"},
                         {"title", "time_minutes", "price"}, {}}) :
        /\ "tags" \notin p.supplied => p.tags = {}
        /\ "ingredients" \notin p.supplied => p.ingredients = {}}

NextUpdate ==
    \E request_user \in Callers :
        \/ Cardinality(users) < MaxUsers /\ sample_user
        \/ \E op \in {"recipe_update", "recipe_partial_update"},
              pk \in 1 .. MaxUpdatedRecipes :
              permission_denied(request_user, op, pk)
        \/ /\ Len(tags) < MaxScopedTags
           /\ RecipeAttributesViewSet_create("tag", request_user, 1,
                                             Anonymous)
        \/ /\ Len(ingredients) < MaxIngredients
           /\ RecipeAttributesViewSet_create("ingredient", request_user, 1,
                                             Anonymous)
        \/ \E payload \in FullPayloads(1, MaxScopedTags, MaxIngredients,
                                       {Anonymous}) :
              /\ nextRecipeId <= MaxUpdatedRecipes
              /\ RecipeViewSet_create(request_user, payload)
        \/ \E pk \in 1 .. MaxUpdatedRecipes, payload \in PutPayloads :
              RecipeViewSet_update(request_user, pk, NoQuery, payload, FALSE)
        \/ \E pk \in 1 .. MaxUpdatedRecipes, payload \in PatchPayloads :
              RecipeViewSet_update(request_user, pk, NoQuery, payload, TRUE)

SpecUpdate == Init /\ [][NextUpdate]_vars

\* SpecUpload: image uploads to recipes, with file names of one extension,
\* of several dots and of no dot, and two values of uuid.uuid4().
FileNames ==
    {<<"a", ".", "j">>, <<"b", ".", "j">>, <<"a", ".", "b", ".", "p">>,
     <<"a">>, <<"j">>}
Uuids == {<<"1">>, <<"2">>}
UploadFiles ==
    {File(TRUE, n, t) : n \in FileNames, t \in Uuids}
    \cup {File(FALSE, <<"a">>, <<"1">>)}

NextUpload ==
    \E request_user \in Callers :
        \/ Cardinality(users) < MaxUsers /\ sample_user
        \/ \E pk \in 1 .. MaxRecipes :
              permission_denied(request_user, "recipe_upload_image", pk)
        \/ /\ nextRecipeId <= MaxRecipes
           /\ RecipeViewSet_create(request_user,
                  Payload(FieldNames, 1, {}, {}, Anonymous))
        \/ \E pk \in 1 .. MaxRecipes, file \in UploadFiles :
              RecipeViewSet_upload_image(request_user, pk, NoQuery, file)

SpecUpload == Init /\ [][NextUpload]_vars

\* SpecWait: one run of the wait_for_db command against a database that
\* refuses at most MaxFailures connections.  The process keeps running
\* (weak fairness of its steps).
NextWait ==
    \/ handle_begin
    \/ handle_while
    \/ connections_default_raises
    \/ time_sleep
    \/ connections_default_returns

SpecWait == Init /\ [][NextWait]_vars /\ WF_vars(NextWait)

\* SpecUser: user creation, token issuance and the profile route.
Emails ==
    {<<>>, <<"a", "b">>, <<"a", "@", "b">>, <<"a", "@", "B">>,
     <<"c", "@", "b">>}
Passwords ==
    {<<>>, <<"p", "w">>, <<"p", "a", "s", "s">>, SamplePassword,
     <<"w", "o", "r", "d", "2", "2">>}
UserBody(supplied, email, password, name, id) ==
    [supplied |-> supplied, email |-> email, password |-> password,
     name |-> name, id |-> id]
\* The bodies of user creation: every email with every password, and the
\* names with valid credentials.
CreateUserPayloads ==
    {UserBody(UserSerializer_fields, e, p, 1, 0) :
        e \in Emails, p \in Passwords}
    \cup {UserBody(UserSerializer_fields, <<"a", "@", "b">>, SamplePassword,
                   n, 0) : n \in {0, 2}}
\* The bodies of PATCH on the profile: one field, or name and password; a
\* body may name a user id, which is no field of the serializer.
MePatchPayloads ==
    {UserBody({"name"}, <<>>, <<>>, n, i) :
        n \in 0 .. 2, i \in {0} \cup UserIds}
    \cup {UserBody({"password"}, <<>>, p, 0, 0) : p \in Passwords}
    \cup {UserBody({"email"}, e, <<>>, 0, 0) : e \in Emails}
    \cup {UserBody({"name", "password"}, <<>>,
                   <<"w", "o", "r", "d", "2", "2">>, 2, 0)}
\* The bodies of PUT on the profile.
MePutPayloads ==
    {UserBody(UserSerializer_fields, e, <<"w", "o", "r", "d", "2", "2">>, 2,
              i) : e \in {<<"a", "@", "b">>, <<"c", "@", "b">>},
                   i \in {0} \cup UserIds}
    \cup {UserBody({"email", "name"}, <<"c", "@", "b">>, <<>>, 2, 0)}

NextUser ==
    \/ \E payload \in CreateUserPayloads :
          /\ Cardinality(users) < MaxUsers
          /\ CreateUserView_post(payload)
    \/ \E email \in Emails, password \in Passwords :
          CreateTokenView_post(email, password)
    \/ \E request_user \in Callers :
          \/ \E op \in MeOps : permission_denied(request_user, op, 0)
          \/ ManageUserView_retrieve(request_user)
          \/ \E payload \in MePatchPayloads :
                ManageUserView_update(request_user, payload, TRUE)
          \/ \E payload \in MePutPayloads :
                ManageUserView_update(request_user, payload, FALSE)

SpecUser == Init /\ [][NextUser]_vars

\* SpecRace: user creations handled at the same time, over two emails,
\* with passwords that pass and that fail validation.
RacePayloads ==
    {UserBody(UserSerializer_fields, e, p, n, 0) :
        e \in {<<"a", "@", "b">>, <<"c", "@", "b">>},
        p \in {SamplePassword, <<"p", "w">>}, n \in 1 .. 2}

NextRace ==
    \E request \in Requests :
        \/ \E payload \in RacePayloads :
              /\ Cardinality(users)
                    + Cardinality({r \in Requests :
                                     inflight[r] # NoRequest}) < MaxUsers
              /\ CreateUserView_post_is_valid(request, payload)
        \/ CreateUserView_post_save(request)

SpecRace == Init /\ [][NextRace]_vars

\* ===================================================== properties
\* The handlers behind IsAuthenticated: the tag, ingredient and recipe
\* routes and the profile (me) route.
ProtectedOps == ListOps \cup CreateOps \cup DetailOps \cup MeOps

\* C1: after any sequence of creates, updates and deletes, a tag,
\* ingredient or recipe list served to a user holds only records that user
\* owns, whatever assigned_only, tags and ingredients parameters the request
\* carries, ids of other users' tags and ingredients included.
C1_ListsHoldOnlyOwnRecords ==
    (response.op \in ListOps /\ response.status = HTTP_200_OK) =>
        /\ \A kind \in AttributeKinds, assigned_only \in AssignedOnlyParams :
              \A r \in RecipeAttributesViewSet_list_responses(
                           kind, response.user, assigned_only) :
                 \A i \in 1 .. Len(r.data) :
                    Attributes(kind)[r.data[i]].user = response.user
        /\ \A tags_param \in QueryParams, ingredients_param \in QueryParams :
              LET r == RecipeViewSet_list_response(response.user, tags_param,
                                                   ingredients_param)
              IN \A i \in 1 .. Len(r.data) :
                    Recipe(r.data[i]).user = response.user

\* A recipe list was served to a user who owns a recipe carrying tag 1,
\* while another user owns a recipe carrying tag 1 too and the tag itself:
\* tags=1 names a foreign tag and matches a foreign recipe.
C1_Witness ==
    /\ response.op = "recipe_list"
    /\ response.status = HTTP_200_OK
    /\ Len(tags) >= 1
    /\ tags[1].user # response.user
    /\ \E r \in recipes : r.user # response.user /\ 1 \in r.tags
    /\ \E r \in recipes : r.user = response.user /\ 1 \in r.tags
    /\ RecipeViewSet_list_response(response.user, <<"1">>, None).data # <<>>

\* C2: a tag, ingredient or recipe that a create request stored is owned
\* by the user who issued the request, whatever owner the body names.
C2_CreatedRecordOwnedByCaller ==
    (response.op \in CreateOps /\ response.status = HTTP_201_CREATED) =>
        /\ response.op = "tag_create" =>
              tags[response.pk].user = response.user
        /\ response.op = "ingredient_create" =>
              ingredients[response.pk].user = response.user
        /\ response.op = "recipe_create" =>
              Recipe(response.pk).user = response.user

\* A recipe was created by a request whose body names another stored user
\* as the owner.
C2_Witness ==
    /\ response.op = "recipe_create"
    /\ response.status = HTTP_201_CREATED
    /\ response.body_user \in users \ {response.user}
    /\ response.pk \in RecipeIds

\* C3: a request to a tag, ingredient, recipe or profile route by a caller
\* who is no stored user is answered 401, returns no records and leaves the
\* stored users, tags, ingredients and recipes as they were.
C3_UnauthenticatedIsRefused ==
    [][(response'.op \in ProtectedOps /\ response'.user \notin users) =>
          /\ response'.status = HTTP_401_UNAUTHORIZED
          /\ UNCHANGED db
          /\ \A kind \in AttributeKinds, assigned_only \in AssignedOnlyParams :
                \A r \in RecipeAttributesViewSet_list_responses(
                             kind, response'.user, assigned_only) :
                   r.data = <<>>
          /\ \A query \in ListQueries :
                RecipeViewSet_list_response(response'.user, query[1],
                                            query[2]).data = <<>>]_vars

\* A token-less delete of a stored recipe was refused while tags and
\* recipes were stored.
C3_Witness ==
    /\ response.op = "recipe_destroy"
    /\ response.status = HTTP_401_UNAUTHORIZED
    /\ response.user = Anonymous
    /\ response.pk \in RecipeIds
    /\ tags # <<>>

\* C4: a retrieve, PUT, PATCH, delete or upload-image request by a stored
\* user that names a recipe owned by another user is answered 404 and
\* leaves that recipe stored as it was.
C4_ForeignRecipeIsNotFound ==
    [][(/\ response'.op \in DetailOps
        /\ response'.user \in users
        /\ \E r \in recipes : r.id = response'.pk /\ r.user # response'.user)
       => /\ response'.status = HTTP_404_NOT_FOUND
          /\ Recipe(response'.pk) \in recipes']_vars

\* The filter values of the recipe list with their meaning: whether the
\* value restricts the list, and the ids it lists.
FilterQueries ==
    {[str |-> None, restricts |-> FALSE, ids |-> {}],
     [str |-> <<>>, restricts |-> FALSE, ids |-> {}],
     [str |-> <<"1">>, restricts |-> TRUE, ids |-> {1}],
     [str |-> <<"2">>, restricts |-> TRUE, ids |-> {2}],
     [str |-> <<"1", ",", "2">>, restricts |-> TRUE, ids |-> {1, 2}]}
IdQueries == {q \in FilterQueries : q.restricts}
\* The recipes of a user that carry a listed id of the kind.
OwnRecipesWith(kind, request_user, ids) ==
    {r.id : r \in {x \in recipes :
                     /\ x.user = request_user
                     /\ RecipeAttributeIds(kind, x) \cap ids # {}}}

\* C5: the recipe list with tags=<ids> holds exactly the caller's recipes
\* that carry at least one listed tag, and none that carries no listed tag;
\* likewise ingredients=<ids> with ingredients.
C5_FilterReturnsUnionOfOwnMatches ==
    (response.op = "recipe_list" /\ response.user \in users) =>
        \A q \in IdQueries :
            LET byTags == RecipeViewSet_list_response(response.user, q.str,
                                                      None)
                byIngredients == RecipeViewSet_list_response(response.user,
                                                             None, q.str)
            IN /\ byTags.status = HTTP_200_OK
               /\ Range(byTags.data)
                     = OwnRecipesWith("tag", response.user, q.ids)
               /\ byIngredients.status = HTTP_200_OK
               /\ Range(byIngredients.data)
                     = OwnRecipesWith("ingredient", response.user, q.ids)

\* A recipe list was served to a user who owns a recipe carrying tag 1 only
\* and a recipe carrying tag 2 only: tags=1,2 is their union, tags=1
\* excludes the second.
C5_Witness ==
    /\ response.op = "recipe_list"
    /\ response.status = HTTP_200_OK
    /\ \E r \in recipes : r.user = response.user /\ r.tags = {1}
    /\ \E r \in recipes : r.user = response.user /\ r.tags = {2}
    /\ Len(RecipeViewSet_list_response(response.user, <<"1">>, None).data) = 1

\* C6: with both filters a recipe is listed only if it carries a listed tag
\* and a listed ingredient; a filter that is absent or empty restricts
\* nothing, so without filters the list is every recipe of the caller.
C6_FiltersAreConjunctive ==
    (response.op = "recipe_list" /\ response.user \in users) =>
        \A t \in FilterQueries, g \in FilterQueries :
            LET r == RecipeViewSet_list_response(response.user, t.str, g.str)
                own == {x \in recipes : x.user = response.user}
            IN /\ r.status = HTTP_200_OK
               /\ Range(r.data)
                     = {x.id : x \in {y \in own :
                           /\ t.restricts => y.tags \cap t.ids # {}
                           /\ g.restricts => y.ingredients \cap g.ids # {}}}

\* A recipe list was served to a user who owns a recipe carrying tag 1 and
\* ingredient 1 and a recipe carrying tag 2 and no ingredient: both filters
\* together select less than either alone.
C6_Witness ==
    /\ response.op = "recipe_list"
    /\ response.status = HTTP_200_OK
    /\ \E r \in recipes :
          r.user = response.user /\ r.tags = {1} /\ r.ingredients = {1}
    /\ \E r \in recipes :
          r.user = response.user /\ r.tags = {2} /\ r.ingredients = {}
    /\ RecipeViewSet_list_response(response.user, <<"2">>, <<"1">>).data
          = <<>>

\* The filter values with a token that is no integer: 'a', '1,,2', '1,x'.
MalformedParams ==
    {<<"a">>, <<"1", ",", ",", "2">>, <<"1", ",", "x">>}

\* C7: a recipe list request whose tags or ingredients parameter holds a
\* token that is no integer is answered with a 4xx status, not a server
\* error, and returns no records.
C7_MalformedIdsAreClientError ==
    (response.op = "recipe_list" /\ response.user \in users) =>
        \A m \in MalformedParams :
            LET byTags == RecipeViewSet_list_response(response.user, m, None)
                byIngredients == RecipeViewSet_list_response(response.user,
                                                             None, m)
            IN /\ byTags.status \in 400 .. 499
               /\ byTags.data = <<>>
               /\ byIngredients.status \in 400 .. 499
               /\ byIngredients.data = <<>>

\* The values of assigned_only that ask for the assigned records.
TrueParams == {<<"t", "r", "u", "e">>, <<"1">>}
\* The kind a list handler serves.
ListedKind == IF response.op = "tag_list" THEN "tag" ELSE "ingredient"
AttributeListServed ==
    /\ response.op \in {"tag_list", "ingredient_list"}
    /\ response.status = HTTP_200_OK

\* C8 as stated: with assigned_only=true the tag (ingredient) list holds
\* only records of the caller that a recipe of the caller references.
C8_AssignedToOwnRecipeOnly ==
    AttributeListServed =>
        \A assigned_only \in TrueParams :
            \A r \in RecipeAttributesViewSet_list_responses(
                         ListedKind, response.user, assigned_only) :
               \A i \in 1 .. Len(r.data) :
                  /\ Attributes(ListedKind)[r.data[i]].user = response.user
                  /\ \E x \in recipes :
                        /\ x.user = response.user
                        /\ r.data[i] \in RecipeAttributeIds(ListedKind, x)

\* C8, amended: with assigned_only=true the tag (ingredient) list holds
\* only records of the caller that a recipe of some user references; a
\* record of the caller that no recipe references is not listed.
C8_AssignedToSomeRecipeOnly ==
    AttributeListServed =>
        \A assigned_only \in TrueParams :
            \A r \in RecipeAttributesViewSet_list_responses(
                         ListedKind, response.user, assigned_only) :
               \A i \in 1 .. Len(r.data) :
                  /\ Attributes(ListedKind)[r.data[i]].user = response.user
                  /\ \E x \in recipes :
                        r.data[i] \in RecipeAttributeIds(ListedKind, x)

\* A list was served to a user who owns a record that only another user's
\* recipe references and a record that no recipe references.
C8_Witness ==
    /\ AttributeListServed
    /\ \E a \in AttributeIds(ListedKind) :
          /\ Attributes(ListedKind)[a].user = response.user
          /\ \E x \in recipes : a \in RecipeAttributeIds(ListedKind, x)
          /\ \A x \in recipes :
                a \in RecipeAttributeIds(ListedKind, x)
                   => x.user # response.user
    /\ \E a \in AttributeIds(ListedKind) :
          /\ Attributes(ListedKind)[a].user = response.user
          /\ \A x \in recipes : a \notin RecipeAttributeIds(ListedKind, x)

\* C9: a tag or ingredient list holds each record at most once, with or
\* without assigned_only, also when several recipes reference the record.
C9_AttributeListHasNoDuplicates ==
    AttributeListServed =>
        \A assigned_only \in AssignedOnlyParams :
            \A r \in RecipeAttributesViewSet_list_responses(
                         ListedKind, response.user, assigned_only) :
               \A i \in 1 .. Len(r.data), j \in 1 .. Len(r.data) :
                  i # j => r.data[i] # r.data[j]

\* A list was served to a user who owns a record that two recipes
\* reference.
C9_Witness ==
    /\ AttributeListServed
    /\ \E a \in AttributeIds(ListedKind) :
          /\ Attributes(ListedKind)[a].user = response.user
          /\ Cardinality({x \in recipes :
                            a \in RecipeAttributeIds(ListedKind, x)}) >= 2

\* C10: the tag list and the ingredient list are sorted by name,
\* descending: of two adjacent records the earlier has the greater or the
\* equal name.
C10_AttributeListSortedByNameDescending ==
    AttributeListServed =>
        \A assigned_only \in AssignedOnlyParams :
            \A r \in RecipeAttributesViewSet_list_responses(
                         ListedKind, response.user, assigned_only) :
               \A i \in 1 .. (Len(r.data) - 1) :
                  Attributes(ListedKind)[r.data[i]].name
                     >= Attributes(ListedKind)[r.data[i + 1]].name

\* A list was served to a user who owns two records, the one stored first
\* having the smaller name: the stored order is not the listed order.
C10_Witness ==
    /\ AttributeListServed
    /\ Len(Attributes(ListedKind)) = 2
    /\ \A a \in 1 .. 2 : Attributes(ListedKind)[a].user = response.user
    /\ Attributes(ListedKind)[1].name < Attributes(ListedKind)[2].name

\* C11: the recipe list is sorted by id, descending, and ids grow with
\* every create: a recipe created later stands before every recipe created
\* earlier, in every list response.
C11_RecipeListSortedByIdDescending ==
    (response.op = "recipe_list" /\ response.user \in users) =>
        /\ \A r \in recipes : r.id < nextRecipeId
        /\ \A t \in FilterQueries, g \in FilterQueries :
              LET r == RecipeViewSet_list_response(response.user, t.str,
                                                   g.str)
              IN \A i \in 1 .. Len(r.data), j \in 1 .. Len(r.data) :
                    i < j => r.data[i] >= r.data[j]

\* A recipe list was served to a user who owns two recipes, and the
\* unfiltered list holds both.
C11_Witness ==
    /\ response.op = "recipe_list"
    /\ response.status = HTTP_200_OK
    /\ Cardinality({r \in recipes : r.user = response.user}) = 2
    /\ Len(RecipeViewSet_list_response(response.user, None, None).data) = 2

\* The recipe with the id after the step.
RecipeAfter(pk) == CHOOSE r \in recipes' : r.id = pk

\* C12: a PATCH of a recipe of the caller that is accepted changes exactly
\* the fields the body supplies: a supplied tags list becomes the recipe's
\* tag set, and title, duration, price, link, tags and ingredients keep
\* their values when the body does not supply them; owner and image stay.
C12_PatchChangesSuppliedFieldsOnly ==
    [][\A request_user \in UserIds, pk \in 1 .. MaxUpdatedRecipes,
          payload \in PatchPayloads :
          (/\ RecipeViewSet_update(request_user, pk, NoQuery, payload, TRUE)
           /\ response'.status = HTTP_200_OK)
          => /\ Recipe(pk).user = request_user
             /\ \A f \in FieldNames :
                   RecipeAfter(pk)[f] = IF f \in payload.supplied
                                        THEN payload[f] ELSE Recipe(pk)[f]
             /\ RecipeAfter(pk).user = Recipe(pk).user
             /\ RecipeAfter(pk).image = Recipe(pk).image
             /\ RecipeIds' = RecipeIds]_vars

\* A PATCH that supplied the tags only was accepted for a recipe that
\* carries an ingredient and has the title it was created with.
C12_Witness ==
    /\ response.op = "recipe_partial_update"
    /\ response.status = HTTP_200_OK
    /\ response.supplied = {"tags"}
    /\ Recipe(response.pk).tags = {1}
    /\ Recipe(response.pk).ingredients = {1}
    /\ Recipe(response.pk).title = 1

\* C13: a PUT of a recipe of the caller that is accepted and whose body
\* omits the tags (the ingredients) leaves the recipe without tags (without
\* ingredients) and sets title, duration and price to the body's values.
C13_PutClearsOmittedAssociations ==
    [][\A request_user \in UserIds, pk \in 1 .. MaxUpdatedRecipes,
          payload \in PutPayloads :
          (/\ RecipeViewSet_update(request_user, pk, NoQuery, payload, FALSE)
           /\ response'.status = HTTP_200_OK)
          => /\ Recipe(pk).user = request_user
             /\ "tags" \notin payload.supplied => RecipeAfter(pk).tags = {}
             /\ "ingredients" \notin payload.supplied
                   => RecipeAfter(pk).ingredients = {}
             /\ RecipeAfter(pk).title = payload.title
             /\ RecipeAfter(pk).time_minutes = payload.time_minutes
             /\ RecipeAfter(pk).price = payload.price]_vars

\* A PUT whose body omitted the tags and the ingredients was accepted, and
\* the recipe carries none while a tag and an ingredient are stored.
C13_Witness ==
    /\ response.op = "recipe_update"
    /\ response.status = HTTP_200_OK
    /\ response.supplied = {"title", "time_minutes", "price"}
    /\ Recipe(response.pk).tags = {}
    /\ Recipe(response.pk).ingredients = {}
    /\ Recipe(response.pk).title = 2
    /\ tags # <<>>
    /\ ingredients # <<>>

\* C14: a create request of an authenticated user for a tag, an ingredient
\* or a recipe whose name or title is empty is answered 400 and stores
\* nothing: tags, ingredients and recipes are as before.
C14_EmptyNameCreatesNothing ==
    [][/\ \A request_user \in UserIds, kind \in AttributeKinds,
             body_user \in Callers :
             RecipeAttributesViewSet_create(kind, request_user, 0, body_user)
             => /\ response'.status = HTTP_400_BAD_REQUEST
                /\ UNCHANGED <<tags, ingredients, recipes>>
       /\ \A request_user \in UserIds, payload \in AttributePayloads :
             (payload.title = 0 /\ RecipeViewSet_create(request_user, payload))
             => /\ response'.status = HTTP_400_BAD_REQUEST
                /\ UNCHANGED <<tags, ingredients, recipes>>]_vars

\* A tag create was refused while a tag and a recipe were stored.
C14_Witness ==
    /\ response.op = "tag_create"
    /\ response.status = HTTP_400_BAD_REQUEST
    /\ Len(tags) = 1
    /\ recipes # {}

ProfileOps == {"user_create", "me_retrieve", "me_update"}

\* C16: after any user creations and profile updates no stored user holds
\* a raw password, only the hash set_password makes, and no response of
\* user creation or of the profile route carries the password field.
C16_PasswordNeverPlain ==
    /\ \A u \in users : accounts[u].password.algorithm = "pbkdf2_sha256"
    /\ response.op \in ProfileOps => "password" \notin response.data.fields

\* A profile update that supplied a password was accepted and the stored
\* password checks against a new raw password.
C16_Witness ==
    /\ response.op = "me_update"
    /\ response.status = HTTP_200_OK
    /\ "password" \in response.supplied
    /\ check_password(<<"w", "o", "r", "d", "2", "2">>,
                      accounts[response.user].password)
    /\ response.data.fields = {"email", "name"}

\* C17: a user creation request whose email is the email of a stored user
\* is answered 400 and stores nothing, and no two stored users ever have
\* the same email.
C17_EmailsAreUnique ==
    /\ [](\A u \in users, v \in users :
             u # v => accounts[u].email # accounts[v].email)
    /\ [][\A payload \in CreateUserPayloads :
             (/\ \E u \in users : accounts[u].email = payload.email
              /\ CreateUserView_post(payload))
             => /\ response'.status = HTTP_400_BAD_REQUEST
                /\ UNCHANGED <<users, accounts>>]_vars

\* A user creation was refused because its email is stored already.
C17_Witness ==
    /\ response.op = "user_create"
    /\ response.status = HTTP_400_BAD_REQUEST
    /\ response.data.errors = {<<"email", "unique">>}
    /\ Cardinality(users) = 1

\* Whether the credentials are those of a stored user.
CredentialsMatch(email, password) ==
    \E u \in users :
        /\ accounts[u].email = email
        /\ accounts[u].password = set_password(password)

\* C18: the token route issues a token only for the email and password of
\* a stored user; a wrong password, an email of no user and a blank
\* password are answered 400 without a token, and no token is stored.
C18_TokenOnlyForValidCredentials ==
    [][\A email \in Emails, password \in Passwords :
          CreateTokenView_post(email, password)
          => /\ "token" \in response'.data.fields
                   => CredentialsMatch(email, password)
             /\ (~CredentialsMatch(email, password) \/ password = <<>>)
                   => /\ response'.status = HTTP_400_BAD_REQUEST
                      /\ "token" \notin response'.data.fields
                      /\ response'.data.token = 0
                      /\ authtoken' = authtoken]_vars

\* A token request with the email of no stored user and a password was
\* refused while a user was stored.
C18_Witness ==
    /\ response.op = "token_create"
    /\ response.status = HTTP_400_BAD_REQUEST
    /\ response.pk = 0
    /\ response.data.errors = {<<"non_field_errors", "authentication">>}
    /\ users # {}

\* C19: the token route answers an email of a stored user with a wrong
\* password exactly as it answers an email of no user with that password:
\* the same status and the same error body.
C19_InvalidCredentialsFailUniformly ==
    \A known \in Emails \ {<<>>}, unknown \in Emails \ {<<>>},
       password \in Passwords :
        (/\ \E u \in users : accounts[u].email = known
         /\ ~CredentialsMatch(known, password)
         /\ \A u \in users : accounts[u].email # unknown)
        => CreateTokenView_response(known, password)
              = CreateTokenView_response(unknown, password)

\* A token request with the email of a stored user and a wrong password
\* was refused.
C19_Witness ==
    /\ response.op = "token_create"
    /\ response.status = HTTP_400_BAD_REQUEST
    /\ response.pk \in users
    /\ response.data.errors = {<<"non_field_errors", "authentication">>}

\* C20: the profile route works on the caller's own row: a retrieval
\* answers the caller's email and name, and an update leaves the row of
\* every other user as it was, whatever the body holds.
C20_ProfileIsTheCallersOwn ==
    [][/\ (response'.op = "me_retrieve" /\ response'.status = HTTP_200_OK)
          => /\ response'.data.fields = {"email", "name"}
             /\ response'.data.email = accounts[response'.user].email
             /\ response'.data.name = accounts[response'.user].name
       /\ response'.op = "me_update"
          => /\ users' = users
             /\ authtoken' = authtoken
             /\ \A u \in users \ {response'.user} :
                   accounts'[u] = accounts[u]
             /\ response'.status = HTTP_200_OK
                => /\ response'.data.email = accounts'[response'.user].email
                   /\ response'.data.name = accounts'[response'.user].name]_vars

\* A profile update was accepted while another user was stored.
C20_Witness ==
    /\ response.op = "me_update"
    /\ response.status = HTTP_200_OK
    /\ "name" \in response.supplied
    /\ Cardinality(users) = 2
    /\ accounts[response.user].name = 2
    /\ \E u \in users \ {response.user} : accounts[u].name = 1

\* C21: the email of a user creation is stored with its domain part in
\* lower case and its local part as given (a@B is stored as a@b), and
\* normalizing the stored email again returns it as it is.
C21_EmailNormalizedAtCreation ==
    [][(response'.op = "user_create"
        /\ response'.status = HTTP_201_CREATED
        /\ users' # users)
       => LET given == response'.body_email
              stored == accounts'[response'.pk].email
          IN /\ Len(stored) = Len(given)
             /\ \E k \in 1 .. Len(given) :
                   /\ given[k] = "@"
                   /\ \A j \in (k + 1) .. Len(given) : given[j] # "@"
                   /\ SubSeq(stored, 1, k) = SubSeq(given, 1, k)
                   /\ SubSeq(stored, k + 1, Len(stored))
                         = lower(SubSeq(given, k + 1, Len(given)))
             /\ given = <<"a", "@", "B">> => stored = <<"a", "@", "b">>
             /\ normalize_email(stored) = stored
             /\ normalize_email(normalize_email(given))
                   = normalize_email(given)]_vars

\* A user was created from an email with an upper-case domain and is
\* stored under the lower-case one.
C21_Witness ==
    /\ response.op = "user_create"
    /\ response.status = HTTP_201_CREATED
    /\ response.body_email = <<"a", "@", "B">>
    /\ accounts[response.pk].email = <<"a", "@", "b">>

\* C22: an image upload to a recipe of the caller whose file is no image
\* is answered 400 and leaves the recipe, its image field included, as it
\* was.
C22_NonImageUploadIsBadRequest ==
    [][\A request_user \in UserIds, pk \in 1 .. MaxRecipes,
          query \in DetailQueries, file \in Files :
          (/\ ~file.is_image
           /\ \E r \in recipes : r.id = pk /\ r.user = request_user
           /\ RecipeViewSet_upload_image(request_user, pk, query, file))
          => /\ response'.status = HTTP_400_BAD_REQUEST
             /\ recipes' = recipes]_vars

\* The extension of a file name: what follows its last '.', and nothing
\* when the name holds no '.'.
OriginalExtension(file_name) ==
    IF \E i \in 1 .. Len(file_name) : file_name[i] = "."
    THEN file_extension(file_name)
    ELSE <<>>

\* C23: the path an accepted upload stores is 'uploads/recipe/', the token
\* of the call, '.', and the extension of the uploaded file's name; a file
\* name with the same extension gets the same path from the same token,
\* and no file name gets that path from another token.
C23_StoredPathIsTokenAndExtension ==
    [][\A request_user \in UserIds, pk \in 1 .. MaxRecipes,
          file \in UploadFiles :
          (/\ RecipeViewSet_upload_image(request_user, pk, NoQuery, file)
           /\ response'.status = HTTP_200_OK)
          => LET path == RecipeAfter(pk).image
             IN /\ path = <<"uploads/recipe/">> \o file.uuid4 \o <<".">>
                             \o OriginalExtension(file.name)
                /\ \A other \in UploadFiles :
                      /\ (/\ other.uuid4 = file.uuid4
                          /\ OriginalExtension(other.name)
                                = OriginalExtension(file.name))
                         => create_recipe_image_file_path(other.name,
                                                          other.uuid4) = path
                      /\ other.uuid4 # file.uuid4
                         => create_recipe_image_file_path(other.name,
                                                          other.uuid4) # path]_vars

\* C24: wait_for_db tries the connection until it gets it: when the run
\* has ended, as many attempts raised OperationalError as the database
\* refused, one more attempt was made and it returned, one sleep followed
\* each refused attempt, and the line that reports the database available
\* was written last and once, after the connection was there; while the
\* run lasts a sleep follows every refused attempt before the next one;
\* and the run ends.
C24_WaitsUntilConnected ==
    /\ [](/\ command.pc = "done"
             => /\ command.call_count = command.raised + 1
                /\ command.sleep_count = command.raised
                /\ command.db_conn # None
                /\ command.stdout[Len(command.stdout)] = Available
          /\ \A i \in 1 .. Len(command.stdout) :
                command.stdout[i] = Available
                => i = Len(command.stdout) /\ command.db_conn # None
          /\ command.pc \in {"while", "try"}
             => command.sleep_count = command.raised
          /\ command.pc = "sleep"
             => command.sleep_count + 1 = command.raised
          /\ command.db_conn = None
             => command.call_count = command.raised)
    /\ <>(command.pc = "done")

\* The run ended after five refused attempts and a sixth that connected.
C24_Witness ==
    /\ command.pc = "done"
    /\ command.raised = 5
    /\ command.call_count = 6
    /\ command.sleep_count = 5

\* C25: the tags and ingredients of a recipe are not restricted to its
\* owner's: a recipe creation, and a PATCH of an own recipe, that lists
\* ids of stored tags and ingredients is accepted whoever owns them, and
\* the recipe then references exactly the listed rows.
C25_AssociationsAreNotOwnerRestricted ==
    [][/\ \A request_user \in UserIds,
             payload \in FullPayloads(1, MaxScopedTags, MaxIngredients,
                                      {Anonymous}) :
             (/\ RecipeViewSet_create(request_user, payload)
              /\ payload.title # 0
              /\ payload.tags \subseteq AttributeIds("tag")
              /\ payload.ingredients \subseteq AttributeIds("ingredient"))
             => /\ response'.status = HTTP_201_CREATED
                /\ RecipeAfter(response'.pk).user = request_user
                /\ RecipeAfter(response'.pk).tags = payload.tags
                /\ RecipeAfter(response'.pk).ingredients
                      = payload.ingredients
       /\ \A request_user \in UserIds, pk \in 1 .. MaxUpdatedRecipes,
             payload \in PatchPayloads :
             (/\ RecipeViewSet_update(request_user, pk, NoQuery, payload,
                                      TRUE)
              /\ \E r \in recipes : r.id = pk /\ r.user = request_user
              /\ payload.tags \subseteq AttributeIds("tag")
              /\ payload.ingredients \subseteq AttributeIds("ingredient"))
             => /\ response'.status = HTTP_200_OK
                /\ RecipeAfter(pk).user = request_user
                /\ "tags" \in payload.supplied
                      => RecipeAfter(pk).tags = payload.tags
                /\ "ingredients" \in payload.supplied
                      => RecipeAfter(pk).ingredients
                            = payload.ingredients]_vars

\* A recipe of one user references a tag of another user after a PATCH of
\* its owner that listed the tag.
C25_Witness ==
    /\ response.op = "recipe_partial_update"
    /\ response.status = HTTP_200_OK
    /\ response.supplied = {"tags"}
    /\ Recipe(response.pk).user = response.user
    /\ Recipe(response.pk).tags = {1}
    /\ tags[1].user # response.user

\* C26: a recipe list holds each recipe at most once, for every tags and
\* ingredients filter, also when a recipe carries two of the listed tags
\* or ingredients.
C26_RecipeListHasNoDuplicates ==
    (response.op = "recipe_list" /\ response.user \in users) =>
        \A t \in FilterQueries, g \in FilterQueries :
            LET r == RecipeViewSet_list_response(response.user, t.str, g.str)
            IN \A i \in 1 .. Len(r.data), j \in 1 .. Len(r.data) :
                  i # j => r.data[i] # r.data[j]

\* The values of assigned_only that do not ask for the assigned records:
\* absent, '', '0' and 'false'.
FalseParams == AssignedOnlyParams \ TrueParams

\* C27: the tag (ingredient) list is restricted to the records a recipe
\* references exactly when assigned_only is true: with assigned_only
\* absent, empty, '0' or 'false' the list holds every record of the caller,
\* those no recipe references included, and with 'true' or '1' only
\* referenced ones.
C27_RestrictedOnlyWhenFlagIsTrue ==
    AttributeListServed =>
        /\ \A assigned_only \in FalseParams :
              \A r \in RecipeAttributesViewSet_list_responses(
                           ListedKind, response.user, assigned_only) :
                 Range(r.data)
                    = {a \in AttributeIds(ListedKind) :
                          Attributes(ListedKind)[a].user = response.user}
        /\ \A assigned_only \in TrueParams :
              \A r \in RecipeAttributesViewSet_list_responses(
                           ListedKind, response.user, assigned_only) :
                 \A a \in Range(r.data) :
                    \E x \in recipes : a \in RecipeAttributeIds(ListedKind, x)

\* C28: every stored user email is normalized, its domain part in lower
\* case, after any user creations and profile updates.
C28_StoredEmailsAreNormalized ==
    \A u \in users :
        LET email == accounts[u].email
        IN /\ normalize_email(email) = email
           /\ \A k \in 1 .. Len(email) :
                 (\E i \in 1 .. (k - 1) : email[i] = "@")
                 => lower(<<email[k]>>) = <<email[k]>>

\* C29: when user creations with the same email are handled at the same
\* time, in any order of their steps, no two stored users have the same
\* email, and every creation is answered 201 or with a validation error
\* (400), never with a server error.
C29_ConcurrentDuplicateIsRefusedWith400 ==
    /\ \A u \in users, v \in users :
          u # v => accounts[u].email # accounts[v].email
    /\ response.op = "user_create"
          => response.status \in {HTTP_201_CREATED, HTTP_400_BAD_REQUEST}

====
